---- MODULE Spec2Model ----
(***************************************************************************)
(* cstop (src/cstop/core.py): a terminal stopwatch.  The main thread reads *)
(* one key at a time and mutates the module-level registry TIMERS and      *)
(* GLOBALS['current_key']; a Monitor thread renders the registry every     *)
(* 100 ms.  The code takes no lock, so the main thread is modelled one     *)
(* shared-memory access per step and the Monitor thread likewise.          *)
(*                                                                         *)
(* The clock is a simulated whole-second clock: `now` is datetime.now() in *)
(* seconds.  Python's None is the string "None".                           *)
(***************************************************************************)
EXTENDS Integers, Sequences, FiniteSets, TLC

\* ----------------------------------------------------------------- bounds
MaxNow == 3          \* the clock stops advancing at this second
MaxSwitches == 3     \* no key is read once a timer holds this many marks
MaxCreated == 3      \* no new timer once the dict has had this many entries

\* ----------------------------------------------------------------- inputs
None == "None"
Labels == {"a", "b"}
Keys == Labels \cup {"p", "P", "*", "q", "Q"}

\* str.lower() on the keys the model feeds to getch()
Lower(c) == CASE c = "P" -> "p" [] c = "Q" -> "q" [] OTHER -> c

\* code points, the order sorted() uses on one-character strings
ord(c) == CASE c = "*" -> 42 [] c = "P" -> 80 [] c = "Q" -> 81
            [] c = "a" -> 97 [] c = "b" -> 98 [] c = "p" -> 112
            [] c = "q" -> 113 [] OTHER -> 0

VARIABLES
    TIMERS,        \* the dict, in insertion order: <<[name, state_switches]>>
    entries,       \* the dict's entry table: a key or None per slot used
    current_key,   \* GLOBALS['current_key']
    last_active,   \* main's local
    paused,        \* main's local
    pc,            \* main's position
    char,          \* main's local: the key being processed
    it,            \* main's loop iterator (index into TIMERS)
    keep_running,  \* Monitor.keep_running
    report,        \* the lines of the final report, as printed
    out,           \* the last writes to the terminal, oldest first
    now,           \* datetime.now()
    single,        \* args.single
    mon,           \* the Monitor thread: its position and its locals
    term           \* the terminal: raw mode (tty.setraw), cursor (setterm),
                   \* and getch's local old_settings

vars == <<TIMERS, entries, current_key, last_active, paused, pc, char, it,
          keep_running, report, out, now, single, mon, term>>
mainvars == <<TIMERS, entries, current_key, last_active, paused, pc, char, it,
              keep_running, report, term>>

\* ------------------------------------------------------------ SimpleTimer
SimpleTimer(name) == [name |-> name, state_switches |-> <<>>]

\* resume without its test: a start mark whatever the count
resume_Always(timer, t) == [timer EXCEPT !.state_switches = Append(@, t)]

resume(timer, t) ==
    IF Len(timer.state_switches) % 2 = 0
    THEN [timer EXCEPT !.state_switches = Append(@, t)]
    ELSE timer

stop(timer, t) ==
    IF Len(timer.state_switches) % 2 = 1
    THEN [timer EXCEPT !.state_switches = Append(@, t)]
    ELSE timer

pause(timer, t) == stop(timer, t)

\* state_switches[0::2] and state_switches[1::2]
Starts(sw) == [i \in 1..((Len(sw) + 1) \div 2) |-> sw[2 * i - 1]]
Ends(sw) == [i \in 1..(Len(sw) \div 2) |-> sw[2 * i]]

\* SumPairs with `real_end = datetime.now()` for every pair
RECURSIVE SumPairs_IgnoreEnds(_, _, _, _)
SumPairs_IgnoreEnds(starts, ends, i, t) ==
    IF i > Len(starts) THEN 0
    ELSE (t - starts[i]) + SumPairs_IgnoreEnds(starts, ends, i + 1, t)

RECURSIVE SumPairs(_, _, _, _)
SumPairs(starts, ends, i, t) ==
    IF i > Len(starts) THEN 0
    ELSE LET real_end == IF i <= Len(ends) THEN ends[i] ELSE t
         IN (real_end - starts[i]) + SumPairs(starts, ends, i + 1, t)

\* SimpleTimer.seconds read at clock t (the slices taken at one moment);
\* the sum is a whole number on the whole-second clock, which int() keeps
seconds(timer, t) ==
    SumPairs(Starts(timer.state_switches), Ends(timer.state_switches), 1, t)

Running(timer) == Len(timer.state_switches) % 2 = 1

\* ------------------------------------------------------------ the dict
Names(T) == {T[i].name : i \in 1..Len(T)}
Has(T, k) == k \in Names(T)
Index(T, k) == CHOOSE i \in 1..Len(T) : T[i].name = k
Get(T, k) == T[Index(T, k)]

\* TIMERS.pop(k, None)
Pop(T, k) ==
    IF Has(T, k)
    THEN LET j == Index(T, k)
         IN [i \in 1..(Len(T) - 1) |-> IF i < j THEN T[i] ELSE T[i + 1]]
    ELSE T

\* CPython keeps a dict's entries in a table in insertion order.  A dict
\* of at most two keys has the minimal table: 8 hash slots, of which 5
\* entries can be used before an insertion rebuilds the table.
Usable == 5

\* TIMERS.pop(k, None) on the entry table: the entry is emptied in place
EntriesPop(E, k) == [i \in 1..Len(E) |-> IF E[i] = k THEN None ELSE E[i]]

\* TIMERS[k] = ... for a key that is not in the dict: the entry goes after
\* the last one used; a full table is rebuilt without its empty entries
EntriesInsert(E, k) ==
    IF Len(E) >= Usable
    THEN Append(SelectSeq(E, LAMBDA x : x # None), k)
    ELSE Append(E, k)

\* the dict iterator's scan: the first entry in use at or after position i,
\* Len(E) + 1 when there is none
RECURSIVE NextEntry(_, _)
NextEntry(E, i) ==
    IF i > Len(E) THEN Len(E) + 1
    ELSE IF E[i] # None THEN i
    ELSE NextEntry(E, i + 1)

\* sorted(TIMERS.items()): the names in code-point order
RECURSIVE SortedNames(_)
SortedNames(S) ==
    IF S = {} THEN <<>>
    ELSE LET m == CHOOSE x \in S : \A y \in S : ord(x) <= ord(y)
         IN <<m>> \o SortedNames(S \ {m})

OpenNames(T) == {T[i].name : i \in {j \in 1..Len(T) : Running(T[j])}}

\* str(timedelta(seconds=s)), s below one day: hours, minutes, seconds
timedelta(s) == <<s \div 3600, (s \div 60) % 60, s % 60>>

\* colorise(key, value) with GLOBALS['current_key'] read as cur: the entry
\* is printed bold green exactly when key == cur
colorise(key, value, cur) == [name |-> key, value |-> value, bold |-> key = cur]

\* --------------------------------------------------------- main(), by step
\* The main thread's state: its locals and everything it writes.
MainState ==
    [pc |-> pc, char |-> char, it |-> it, TIMERS |-> TIMERS,
     entries |-> entries,
     current_key |-> current_key, last_active |-> last_active,
     paused |-> paused, keep_running |-> keep_running,
     report |-> report, out |-> out]

\* the terminal keeps the last OutWindow writes
OutWindow == 2
Write(o, w) ==
    LET all == Append(o, w)
    IN IF Len(all) > OutWindow THEN SubSeq(all, Len(all) - OutWindow + 1, Len(all))
       ELSE all

\* ReadKey whose '*' branch keeps last_active
ReadKey_StarRemembers(m, k, t) ==
    LET m1 == [m EXCEPT !.char = k]
    IN IF Lower(k) = "q"
       THEN [m1 EXCEPT !.current_key = None, !.pc = "stop_timers", !.it = 1]
       ELSE IF Lower(k) = "*"
       THEN [m1 EXCEPT !.TIMERS = Pop(@, m.last_active),
                       !.entries = EntriesPop(@, m.last_active),
                       !.pc = "clear_line"]
       ELSE IF Lower(k) = "p"
       THEN IF m.last_active = None THEN [m1 EXCEPT !.pc = "getch"]
            ELSE IF m.paused
            THEN IF Has(m.TIMERS, m.last_active)
                 THEN [m1 EXCEPT
                         !.TIMERS[Index(m.TIMERS, m.last_active)] = resume(@, t),
                         !.paused = FALSE, !.pc = "set_key"]
                 ELSE [m1 EXCEPT !.pc = "KeyError"]
            ELSE [m1 EXCEPT !.pc = "pause_all", !.it = 1]
       ELSE [m1 EXCEPT !.last_active = k, !.current_key = k, !.pc = "create"]

\* lines 165-192 up to the first shared write of the key's branch
ReadKey(m, k, t) ==
    LET m1 == [m EXCEPT !.char = k]
    IN IF Lower(k) = "q"
       THEN [m1 EXCEPT !.current_key = None, !.pc = "stop_timers", !.it = 1]
       ELSE IF Lower(k) = "*"
       THEN [m1 EXCEPT !.TIMERS = Pop(@, m.last_active),
                       !.entries = EntriesPop(@, m.last_active),
                       !.last_active = None, !.pc = "clear_line"]
       ELSE IF Lower(k) = "p"
       THEN IF m.last_active = None THEN [m1 EXCEPT !.pc = "getch"]
            ELSE IF m.paused
            THEN IF Has(m.TIMERS, m.last_active)
                 THEN [m1 EXCEPT
                         !.TIMERS[Index(m.TIMERS, m.last_active)] = resume(@, t),
                         !.paused = FALSE, !.pc = "set_key"]
                 ELSE [m1 EXCEPT !.pc = "KeyError"]
            ELSE [m1 EXCEPT !.pc = "pause_all", !.it = 1]
       ELSE [m1 EXCEPT !.last_active = k, !.current_key = k, !.pc = "create"]

\* line 172
StepClearLine(m) == [m EXCEPT !.out = Write(@, "clear"), !.pc = "getch"]

\* line 179
StepSetKey(m) == [m EXCEPT !.current_key = m.last_active, !.pc = "getch"]

\* lines 181-184, one timer per step, then the two assignments
StepPauseAll(m, t) ==
    IF m.it <= Len(m.TIMERS)
    THEN [m EXCEPT !.TIMERS[m.it] = pause(@, t), !.it = @ + 1]
    ELSE [m EXCEPT !.paused = TRUE, !.current_key = None,
                   !.pc = "getch", !.it = 0]

\* lines 190-192
StepCreate(m) ==
    [m EXCEPT !.TIMERS = IF Has(@, m.char) THEN @
                         ELSE Append(@, SimpleTimer(m.char)),
              !.entries = IF Has(m.TIMERS, m.char) THEN @
                          ELSE EntriesInsert(@, m.char),
              !.pc = "switch", !.it = 1]

\* lines 194-198, one timer per step
StepSwitch(m, t) ==
    IF m.it <= Len(m.TIMERS)
    THEN [m EXCEPT !.TIMERS[m.it] = IF @.name = m.char THEN resume(@, t)
                                    ELSE pause(@, t),
                   !.it = IF m.it = Len(m.TIMERS) THEN 0 ELSE @ + 1,
                   !.pc = IF m.it = Len(m.TIMERS) THEN "getch" ELSE @]
    ELSE [m EXCEPT !.pc = "getch", !.it = 0]

\* lines 200-204, one timer per step (SimpleTimer.join does nothing)
StepStopTimers(m, t) ==
    IF m.it <= Len(m.TIMERS)
    THEN [m EXCEPT !.TIMERS[m.it] = stop(@, t), !.it = @ + 1]
    ELSE [m EXCEPT !.pc = "monitor_stop", !.it = 0]

\* line 206
StepMonitorStop(m) == [m EXCEPT !.keep_running = FALSE, !.pc = "monitor_join"]

\* lines 207-210: join has returned; the header is printed in single mode
StepMonitorJoin(m, sgl) ==
    IF sgl THEN [m EXCEPT !.pc = "report", !.it = 1]
    ELSE [m EXCEPT !.pc = "done"]

\* StepReportLine over TIMERS.items() without sorted()
StepReportLine_Unsorted(m, t) ==
    IF m.it <= Len(m.TIMERS)
    THEN LET timer == m.TIMERS[m.it]
             delta == timedelta(seconds(timer, t))
         IN [m EXCEPT !.report = Append(@, colorise(timer.name, delta,
                                                    m.current_key)),
                      !.it = @ + 1]
    ELSE [m EXCEPT !.pc = "done", !.it = 0]

\* lines 211-213, one line per step
StepReportLine(m, t) ==
    LET names == SortedNames(Names(m.TIMERS))
    IN IF m.it <= Len(names)
       THEN LET timer == Get(m.TIMERS, names[m.it])
                delta == timedelta(seconds(timer, t))
            IN [m EXCEPT !.report = Append(@, colorise(names[m.it], delta,
                                                       m.current_key)),
                         !.it = @ + 1]
       ELSE [m EXCEPT !.pc = "done", !.it = 0]

\* One step of main() that is not a key read.
MainStep(m, t, sgl) ==
    CASE m.pc = "clear_line" -> StepClearLine(m)
      [] m.pc = "set_key" -> StepSetKey(m)
      [] m.pc = "pause_all" -> StepPauseAll(m, t)
      [] m.pc = "create" -> StepCreate(m)
      [] m.pc = "switch" -> StepSwitch(m, t)
      [] m.pc = "stop_timers" -> StepStopTimers(m, t)
      [] m.pc = "monitor_stop" -> StepMonitorStop(m)
      [] m.pc = "monitor_join" -> StepMonitorJoin(m, sgl)
      [] m.pc = "report" -> StepReportLine(m, t)
      [] OTHER -> m

\* The key's branch of the loop body run to its end with nothing in
\* between: back at getch(), or out of the loop after q.
KeyDone(m) == m.pc \in {"getch", "stop_timers", "KeyError"}
RECURSIVE Finish(_, _)
Finish(m, t) == IF KeyDone(m) THEN m ELSE Finish(MainStep(m, t, FALSE), t)
OnKey(m, k, t) == Finish(ReadKey(m, k, t), t)

Apply(m) ==
    /\ pc' = m.pc
    /\ char' = m.char
    /\ it' = m.it
    /\ TIMERS' = m.TIMERS
    /\ entries' = m.entries
    /\ current_key' = m.current_key
    /\ last_active' = m.last_active
    /\ paused' = m.paused
    /\ keep_running' = m.keep_running
    /\ report' = m.report
    /\ out' = m.out

\* no key is read once a timer is full, so that the marks stay bounded
MayRead == \A i \in 1..Len(TIMERS) : Len(TIMERS[i].state_switches) < MaxSwitches

\* no key that makes a new timer is read once the entry table has had
\* MaxCreated entries, so that the timers made in one run stay bounded
MayCreate(k) == (k \in Labels /\ ~Has(TIMERS, k)) => Len(entries) < MaxCreated

\* ------------------------------------------------- the Monitor's locals
\* A reference to a SimpleTimer.  While the timer is in TIMERS the
\* reference reads the dict's object (live); a timer popped from TIMERS
\* is reachable only through this reference and nobody appends to it any
\* more, so the reference then carries the object itself.
NoTimer == [name |-> None, live |-> FALSE, state_switches |-> <<>>]
Ref(k) == [name |-> k, live |-> TRUE, state_switches |-> <<>>]
Deref(T, r) == IF r.live THEN Get(T, r.name).state_switches ELSE r.state_switches
Detach(T, r, k) ==
    IF r.live /\ r.name = k
    THEN [r EXCEPT !.live = FALSE, !.state_switches = Get(T, k).state_switches]
    ELSE r

Idle(p) ==
    [pc |-> p, timer |-> NoTimer, key |-> None, starts |-> <<>>, ends |-> <<>>,
     value |-> <<>>, data |-> <<>>, it |-> 0, size |-> 0, len |-> 0,
     items |-> <<>>]

\* sorted(data) on (name, timedelta) rows
RowLess(r, s) ==
    \/ ord(r[1]) < ord(s[1])
    \/ /\ r[1] = s[1]
       /\ \/ r[2][1] < s[2][1]
          \/ r[2][1] = s[2][1] /\ r[2][2] < s[2][2]
          \/ r[2][1] = s[2][1] /\ r[2][2] = s[2][2] /\ r[2][3] < s[2][3]
RECURSIVE sorted(_)
sorted(rows) ==
    IF rows = <<>> THEN <<>>
    ELSE LET j == CHOOSE i \in 1..Len(rows) :
                     \A h \in 1..Len(rows) : ~RowLess(rows[h], rows[i])
             others == [i \in 1..(Len(rows) - 1) |->
                          IF i < j THEN rows[i] ELSE rows[i + 1]]
         IN <<rows[j]>> \o sorted(others)

\* ------------------------------------------------------- the terminal
\* without_cursor up to its yield (line 54)
without_cursor_enter(tm) == [tm EXCEPT !.cursor = FALSE]

\* the end of the with block.  contextlib throws an exception of the body
\* into the generator at its yield (line 55); nothing there catches it, so
\* line 56 runs only when the body ended without an exception
without_cursor_exit(tm, raised) ==
    IF raised THEN tm ELSE [tm EXCEPT !.cursor = TRUE]

\* getch() up to its read: the settings are saved (61) and the tty is
\* made raw (63)
getch_setraw(tm) == [tm EXCEPT !.old_settings = tm.raw, !.raw = TRUE]

\* getch()'s finally clause (66), whether line 64 returned or raised: the
\* saved settings are put back; the local ends with the call
getch_restore(tm) == [tm EXCEPT !.raw = tm.old_settings, !.old_settings = FALSE]

\* ------------------------------------------------------------- actions
Init ==
    /\ TIMERS = <<>>
    /\ entries = <<>>
    /\ current_key = None
    /\ last_active = None
    /\ paused = FALSE
    /\ pc = "getch"
    /\ char = None
    /\ it = 0
    /\ keep_running = TRUE
    /\ report = <<>>
    /\ out = <<>>
    /\ now = 0
    /\ single \in BOOLEAN
    /\ mon = Idle("run")
    /\ term = without_cursor_enter([raw |-> FALSE, cursor |-> TRUE,
                                    old_settings |-> FALSE])

\* ---- main thread
\* lines 165 and 60-63: getch() is called and makes the tty raw; main()
\* then waits in sys.stdin.read(1)
SetRaw ==
    /\ pc = "getch"
    /\ pc' = "read"
    /\ term' = getch_setraw(term)
    /\ UNCHANGED <<TIMERS, entries, current_key, last_active, paused, char, it,
                   keep_running, report, out, now, single, mon>>

\* lines 64-67 and the key's branch: read(1) returns a key, the finally
\* clause restores the tty and the key is dispatched
Getch ==
    /\ pc = "read"
    /\ \E k \in Keys :
          /\ (MayRead /\ MayCreate(k)) \/ Lower(k) = "q"
          /\ Apply(ReadKey(MainState, k, now))
          /\ mon' = IF Lower(k) = "*"
                    THEN [mon EXCEPT !.timer = Detach(TIMERS, @, last_active)]
                    ELSE mon
    /\ term' = getch_restore(term)
    /\ UNCHANGED <<now, single>>

\* line 64 raises: the finally clause runs and the exception leaves main()
GetchFail ==
    /\ pc = "read"
    /\ pc' = "raised"
    /\ term' = getch_restore(term)
    /\ UNCHANGED <<TIMERS, entries, current_key, last_active, paused, char, it,
                   keep_running, report, out, now, single, mon>>

ClearLine ==
    /\ pc = "clear_line"
    /\ Apply(StepClearLine(MainState))
    /\ UNCHANGED <<now, single, mon, term>>

SetKey ==
    /\ pc = "set_key"
    /\ Apply(StepSetKey(MainState))
    /\ UNCHANGED <<now, single, mon, term>>

PauseAll ==
    /\ pc = "pause_all"
    /\ Apply(StepPauseAll(MainState, now))
    /\ UNCHANGED <<now, single, mon, term>>

Create ==
    /\ pc = "create"
    /\ Apply(StepCreate(MainState))
    /\ UNCHANGED <<now, single, mon, term>>

Switch ==
    /\ pc = "switch"
    /\ Apply(StepSwitch(MainState, now))
    /\ UNCHANGED <<now, single, mon, term>>

StopTimers ==
    /\ pc = "stop_timers"
    /\ Apply(StepStopTimers(MainState, now))
    /\ UNCHANGED <<now, single, mon, term>>

MonitorStop ==
    /\ pc = "monitor_stop"
    /\ Apply(StepMonitorStop(MainState))
    /\ UNCHANGED <<now, single, mon, term>>

\* Thread.join returns once run() has returned or raised
Ended(p) == p \in {"exited", "TypeError", "RuntimeError"}
\* MonitorJoin without the wait: main goes on while the thread runs
MonitorJoin_NoWait ==
    /\ pc = "monitor_join"
    /\ Apply(StepMonitorJoin(MainState, single))
    /\ UNCHANGED <<now, single, mon, term>>

MonitorJoin ==
    /\ pc = "monitor_join"
    /\ Ended(mon.pc)
    /\ Apply(StepMonitorJoin(MainState, single))
    /\ UNCHANGED <<now, single, mon, term>>

ReportLine ==
    /\ pc = "report"
    /\ Apply(StepReportLine(MainState, now))
    /\ UNCHANGED <<now, single, mon, term>>

\* lines 216-217 and 56: main() has returned, the with block ends
Return ==
    /\ pc = "done"
    /\ pc' = "returned"
    /\ term' = without_cursor_exit(term, FALSE)
    /\ UNCHANGED <<TIMERS, entries, current_key, last_active, paused, char, it,
                   keep_running, report, out, now, single, mon>>

\* lines 216-217 and 55: an exception leaves main() through the with
\* block and the process ends, its daemon thread (line 115) with it
Unwind ==
    /\ pc \in {"raised", "KeyError"}
    /\ pc' = "crashed"
    /\ term' = without_cursor_exit(term, TRUE)
    /\ mon' = Idle("killed")
    /\ UNCHANGED <<TIMERS, entries, current_key, last_active, paused, char, it,
                   keep_running, report, out, now, single>>

\* ---- the clock
Tick ==
    /\ now < MaxNow
    /\ now' = now + 1
    /\ UNCHANGED <<mainvars, out, single, mon>>

\* ---- Monitor thread
\* lines 120-124
MonitorRun ==
    /\ mon.pc = "run"
    /\ keep_running
    /\ mon' = [mon EXCEPT !.pc = IF single THEN "single_get" ELSE "multi_iter"]
    /\ UNCHANGED <<mainvars, out, now, single>>

\* a loop that does not test keep_running
MonitorExit_KeepsTicking ==
    /\ mon.pc = "run"
    /\ ~keep_running
    /\ mon' = [mon EXCEPT !.pc = IF single THEN "single_get" ELSE "multi_iter"]
    /\ UNCHANGED <<mainvars, out, now, single>>

\* line 120, the loop ends
MonitorExit ==
    /\ mon.pc = "run"
    /\ ~keep_running
    /\ mon' = [mon EXCEPT !.pc = "exited"]
    /\ UNCHANGED <<mainvars, out, now, single>>

\* lines 135-137
SingleGet ==
    /\ mon.pc = "single_get"
    /\ mon' = IF current_key # None /\ Has(TIMERS, current_key)
              THEN [mon EXCEPT !.timer = Ref(current_key), !.pc = "single_arg"]
              ELSE Idle("sleep")
    /\ UNCHANGED <<mainvars, out, now, single>>

\* line 139: the first argument of colorise
SingleArg ==
    /\ mon.pc = "single_arg"
    /\ mon' = [mon EXCEPT !.key = current_key, !.pc = "sec_starts"]
    /\ UNCHANGED <<mainvars, out, now, single>>

\* line 42: self.state_switches[0::2]
SecStarts ==
    /\ mon.pc = "sec_starts"
    /\ mon' = [mon EXCEPT !.starts = Starts(Deref(TIMERS, mon.timer)),
                          !.pc = "sec_ends"]
    /\ UNCHANGED <<mainvars, out, now, single>>

\* line 43: self.state_switches[1::2]
SecEnds ==
    /\ mon.pc = "sec_ends"
    /\ mon' = [mon EXCEPT !.ends = Ends(Deref(TIMERS, mon.timer)),
                          !.pc = "sec_sum"]
    /\ UNCHANGED <<mainvars, out, now, single>>

\* lines 44-49, then the caller's timedelta(...): an end without a start
\* makes `real_end - start` raise TypeError, which ends the thread
SecSum ==
    /\ mon.pc = "sec_sum"
    /\ mon' =
         IF Len(mon.ends) > Len(mon.starts) THEN Idle("TypeError")
         ELSE LET delta == timedelta(SumPairs(mon.starts, mon.ends, 1, now))
              IN IF single
                 THEN [mon EXCEPT !.value = delta, !.starts = <<>>, !.ends = <<>>,
                                  !.pc = "single_colorise"]
                 ELSE [mon EXCEPT !.data = Append(@, <<mon.timer.name, delta>>),
                                  !.starts = <<>>, !.ends = <<>>,
                                  !.timer = NoTimer, !.pc = "multi_next"]
    /\ UNCHANGED <<mainvars, out, now, single>>

\* lines 139-140: colorise reads GLOBALS['current_key'] again
SingleColorise ==
    /\ mon.pc = "single_colorise"
    /\ mon' = [mon EXCEPT !.items = <<colorise(mon.key, mon.value, current_key)>>,
                          !.key = None, !.value = <<>>, !.pc = "write_cr"]
    /\ UNCHANGED <<mainvars, out, now, single>>

\* line 129: the iterator over TIMERS.values() starts at the first entry
\* and remembers the dict's size and the number of values it has to give
MultiIter ==
    /\ mon.pc = "multi_iter"
    /\ mon' = [mon EXCEPT !.it = 1, !.size = Len(TIMERS), !.len = Len(TIMERS),
                          !.pc = "multi_next"]
    /\ UNCHANGED <<mainvars, out, now, single>>

\* lines 128-130: the iterator's next value.  A dict whose size changed
\* raises RuntimeError ("changed size"); so does an entry found when all
\* the expected values have been given ("keys changed"); either ends the
\* thread.  With no entry left the iteration ends and the rows are sorted.
MultiNext ==
    /\ mon.pc = "multi_next"
    /\ LET i == NextEntry(entries, mon.it)
       IN mon' =
            IF Len(TIMERS) # mon.size THEN Idle("RuntimeError")
            ELSE IF i <= Len(entries)
            THEN IF mon.len = 0 THEN Idle("RuntimeError")
                 ELSE [mon EXCEPT !.timer = Ref(entries[i]), !.it = i + 1,
                                  !.len = @ - 1, !.pc = "sec_starts"]
            ELSE IF mon.data = <<>> THEN Idle("sleep")
            ELSE [mon EXCEPT !.data = sorted(@), !.it = 1, !.size = 0,
                             !.len = 0, !.pc = "multi_colorise"]
    /\ UNCHANGED <<mainvars, out, now, single>>

\* line 130: colorise(*row), one row per step
MultiColorise ==
    /\ mon.pc = "multi_colorise"
    /\ LET row == mon.data[mon.it]
           items == Append(mon.items, colorise(row[1], row[2], current_key))
       IN mon' = IF mon.it = Len(mon.data)
                 THEN [mon EXCEPT !.items = items, !.data = <<>>, !.it = 0,
                                  !.pc = "write_cr"]
                 ELSE [mon EXCEPT !.items = items, !.it = @ + 1]
    /\ UNCHANGED <<mainvars, out, now, single>>

\* lines 132 and 138: print('\r', text, end='') writes '\r', then the
\* separator ' ', then the text (the empty end writes nothing)
WriteCr ==
    /\ mon.pc = "write_cr"
    /\ out' = Write(out, "cr")
    /\ mon' = [mon EXCEPT !.pc = "write_sep"]
    /\ UNCHANGED <<mainvars, now, single>>

WriteSep ==
    /\ mon.pc = "write_sep"
    /\ out' = Write(out, "sep")
    /\ mon' = [mon EXCEPT !.pc = "write_items"]
    /\ UNCHANGED <<mainvars, now, single>>

WriteItems ==
    /\ mon.pc = "write_items"
    /\ out' = Write(out, "items")
    /\ mon' = Idle("sleep")
    /\ UNCHANGED <<mainvars, now, single>>

\* line 125
Sleep ==
    /\ mon.pc = "sleep"
    /\ mon' = [mon EXCEPT !.pc = "run"]
    /\ UNCHANGED <<mainvars, out, now, single>>

MainNext ==
    \/ SetRaw \/ Getch \/ ClearLine \/ SetKey \/ PauseAll \/ Create \/ Switch
    \/ StopTimers \/ MonitorStop \/ MonitorJoin \/ ReportLine
    \/ Return \/ GetchFail \/ Unwind

MonitorNext ==
    \/ MonitorRun \/ MonitorExit \/ SingleGet \/ SingleArg \/ SecStarts
    \/ SecEnds \/ SecSum \/ SingleColorise \/ MultiIter \/ MultiNext
    \/ MultiColorise \/ WriteCr \/ WriteSep \/ WriteItems \/ Sleep

Next == MainNext \/ Tick \/ MonitorNext
Spec == Init /\ [][Next]_vars

\* The main thread and the clock alone: the Monitor thread is scheduled
\* only to leave its loop.  It writes nothing the main thread reads, so
\* these are the behaviours of Spec seen from the main thread.
NextInput == MainNext \/ Tick \/ MonitorExit
SpecInput == Init /\ [][NextInput]_vars

\* Both threads within one second of the clock: every interleaving of the
\* main thread's steps with the Monitor's, the clock not advancing.
NextRender == MainNext \/ MonitorNext
\* Both threads get the processor again and again: a step of the Monitor
\* that can be taken is taken, and so is a step of main() after the loop
\* (main() in the loop waits for a key, which may never come).
AfterLoop == StopTimers \/ MonitorStop \/ MonitorJoin \/ ReportLine \/ Return
SpecFair ==
    /\ Init /\ [][NextRender]_vars
    /\ WF_vars(MonitorNext)
    /\ WF_vars(AfterLoop)

SpecRender == Init /\ [][NextRender]_vars

\* ================================================================ claims
\* A key has just been processed: main is back at getch(), or has just
\* left the loop on q (line 168) and not yet stopped a timer.
AfterKey ==
    \/ pc = "getch" /\ char # None
    \/ pc = "stop_timers" /\ it = 1
AtGetch == pc = "getch"
\* main() is between two keys: about to call getch(), or inside it
Waiting == pc \in {"getch", "read"}
Open == OpenNames(TIMERS)
ElapsedAt(T, L, t) == IF Has(T, L) THEN seconds(Get(T, L), t) ELSE 0
\* the gaps tried between two key presses
MaxGap == 2

\* C1 as stated: after every processed key, q included, at most one timer
\* is open and an open timer's label is current_key.
C1_Exclusivity ==
    AfterKey => /\ Cardinality(Open) <= 1
                /\ \A k \in Open : k = current_key

\* C2 as stated: wherever a timer is open, processing p or P leaves no open
\* timer, current_key None and the paused flag set.
C2_PauseAll ==
    (AtGetch /\ Open # {}) =>
        \A k \in {"p", "P"} :
            LET r == OnKey(MainState, k, now)
            IN /\ OpenNames(r.TIMERS) = {}
               /\ r.current_key = None
               /\ r.paused

\* C3 as stated, step by step: between keys a second of the clock adds one
\* second to the selected label's elapsed time if the registry is not paused
\* and nothing to any other label; no step other than a '*' changes an
\* elapsed time read at the same instant.
C3_Accounting ==
    [][/\ (Waiting /\ now' = now + 1) =>
             \A L \in Labels :
                 ElapsedAt(TIMERS', L, now') - ElapsedAt(TIMERS, L, now)
                     = IF L = last_active /\ ~paused THEN 1 ELSE 0
       /\ (now' = now /\ ~(pc = "read" /\ pc' = "clear_line")) =>
             \A L \in Labels :
                 ElapsedAt(TIMERS', L, now') = ElapsedAt(TIMERS, L, now)]_vars

\* C4 as stated: with m active, p and then p again d seconds later restore
\* current_key = m with exactly m open and the other timers untouched, and
\* m's elapsed time e seconds after that is its elapsed time at the first p
\* plus e.
C4_RoundTrip ==
    (AtGetch /\ current_key # None /\ Open = {current_key}) =>
        \A d \in 0..MaxGap, e \in 0..MaxGap :
            LET m == current_key
                r1 == OnKey(MainState, "p", now)
                r2 == OnKey(r1, "p", now + d)
            IN /\ r2.current_key = m
               /\ OpenNames(r2.TIMERS) = {m}
               /\ Names(r2.TIMERS) = Names(TIMERS)
               /\ \A n \in Names(TIMERS) \ {m} :
                      Get(r2.TIMERS, n) = Get(TIMERS, n)
               /\ ElapsedAt(r2.TIMERS, m, now + d + e)
                      = ElapsedAt(TIMERS, m, now) + e

\* C5 as stated: with x the active label, '*' removes x's timer, clears
\* current_key and leaves the other timers as they are; selecting x again d
\* seconds later makes a fresh timer, elapsed 0, with one open interval.
C5_Reset ==
    (AtGetch /\ current_key # None /\ Has(TIMERS, current_key)) =>
        \A d \in 0..MaxGap :
            LET x == current_key
                r1 == OnKey(MainState, "*", now)
                r2 == OnKey(r1, x, now + d)
            IN /\ ~Has(r1.TIMERS, x)
               /\ r1.current_key = None
               /\ \A n \in Names(TIMERS) \ {x} :
                      Has(r1.TIMERS, n) /\ Get(r1.TIMERS, n) = Get(TIMERS, n)
               /\ Has(r2.TIMERS, x)
               /\ Get(r2.TIMERS, x).state_switches = <<now + d>>
               /\ ElapsedAt(r2.TIMERS, x, now + d) = 0

\* the step that reads '*' (lines 169-171)
StarRead == pc = "read" /\ pc' = "clear_line"
Removed == Names(TIMERS) \ Names(TIMERS')

\* C6 as stated: '*' with current_key unset (Idle, Paused) changes nothing
\* in the registry, and a timer leaves the registry only by '*' read while
\* it is current_key.
C6_StarNoOp ==
    [][/\ (StarRead /\ current_key = None) => TIMERS' = TIMERS
       /\ \A k \in Removed : StarRead /\ current_key = k]_vars

\* the Monitor is about to read the registry
MonitorReading ==
    mon.pc \in {"single_get", "single_arg", "sec_starts", "sec_ends",
                "single_colorise", "multi_iter", "multi_next", "multi_colorise"}

\* C7 as stated: the Monitor never reads a registry in which a key is half
\* processed: never two open timers, never the newly selected current_key
\* before its timer exists.
C7_SnapshotAtomic ==
    MonitorReading =>
        /\ Cardinality(Open) <= 1
        /\ pc = "create" => Has(TIMERS, current_key)

\* C8 as stated: the clear-line write of '*' never lands between the writes
\* of one print of the Monitor.
C8_OutputExclusive ==
    ~(/\ mon.pc \in {"write_sep", "write_items"}
      /\ out # <<>>
      /\ out[Len(out)] = "clear")

ShutdownPcs ==
    {"stop_timers", "monitor_stop", "monitor_join", "report", "done", "returned"}

\* C9: once q/Q is read main never reads a key again; all timers are closed
\* before the Monitor is told to stop; the Monitor has ended before the
\* report starts, so it writes nothing after the report's first line and
\* the report reads stopped timers only.
C9_ShutdownOrder ==
    /\ (Lower(char) = "q") <=> (pc \in ShutdownPcs)
    /\ pc \in {"monitor_stop", "monitor_join", "report", "done", "returned"}
          => Open = {}
    /\ pc \in {"monitor_join", "report", "done", "returned"} => ~keep_running
    /\ pc \in {"report", "done", "returned"} =>
          /\ Ended(mon.pc)
          /\ ~ENABLED MonitorNext
    /\ (report # <<>> \/ pc = "done") => pc \in {"report", "done", "returned"}

\* C9 witness: the report of two timers is complete, after the Monitor
\* wrote to the terminal and ended.
C9_Witness ==
    /\ pc = "done" /\ single /\ Len(report) = 2
    /\ out # <<>> /\ out[Len(out)] = "items"
    /\ mon.pc = "exited"

\* C10: at the end, in single mode the report has one line per timer of
\* the registry, in ascending label order, with the timer's final elapsed
\* time; in multi mode it has no line.
C10_Report ==
    pc = "done" =>
        IF single
        THEN /\ Len(report) = Len(TIMERS)
             /\ {report[i].name : i \in 1..Len(report)} = Names(TIMERS)
             /\ \A i, j \in 1..Len(report) :
                    i < j => ord(report[i].name) < ord(report[j].name)
             /\ \A i \in 1..Len(report) :
                    /\ report[i].value
                         = timedelta(ElapsedAt(TIMERS, report[i].name, 0))
                    /\ Open = {}
        ELSE report = <<>>

\* C10 witness: a finished report of two timers, b inserted before a, both
\* with time on them.
C10_Witness ==
    /\ pc = "done" /\ single /\ Len(report) = 2
    /\ TIMERS[1].name = "b"
    /\ report[1].value # <<0, 0, 0>> /\ report[2].value # <<0, 0, 0>>

\* C11: from one state to the next, a timer that stays running never loses
\* elapsed time, a timer that stays stopped keeps its elapsed time whatever
\* the clock does, and the report's reading of the elapsed times leaves
\* every timer's marks as they are.
C11_Monotonic ==
    [][/\ \A L \in Names(TIMERS) \cap Names(TIMERS') :
             LET old == Get(TIMERS, L)
                 new == Get(TIMERS', L)
             IN /\ (Running(old) /\ Running(new)) =>
                       seconds(new, now') >= seconds(old, now)
                /\ (~Running(old) /\ ~Running(new)) =>
                       seconds(new, now') = seconds(old, now)
       /\ pc = "report" => TIMERS' = TIMERS]_vars

\* C11 witness: a ran for a second and has been stopped for a second since;
\* b has been running for that second.
C11_Witness ==
    /\ pc = "getch" /\ Has(TIMERS, "a") /\ Has(TIMERS, "b")
    /\ Get(TIMERS, "a").state_switches = <<0, 1>>
    /\ Get(TIMERS, "b").state_switches = <<1>>
    /\ now = 2

\* C12: on every timer of the registry resume() changes nothing while it
\* runs and pause()/stop() change nothing while it is stopped; resume()
\* twice on a stopped timer adds one mark; the marks never decrease in
\* time; and the key of the timer that is already active, pressed again,
\* leaves every timer's marks as they are.
C12_Idempotent ==
    /\ \A i \in 1..Len(TIMERS), d \in 0..MaxGap :
          LET timer == TIMERS[i]
              t == now + d
          IN /\ \A h \in 1..(Len(timer.state_switches) - 1) :
                   timer.state_switches[h] <= timer.state_switches[h + 1]
             /\ Running(timer) => resume(timer, t) = timer
             /\ ~Running(timer) =>
                   /\ stop(timer, t) = timer
                   /\ pause(timer, t) = timer
                   /\ resume(resume(timer, t), t + 1) = resume(timer, t)
                   /\ Len(resume(resume(timer, t), t + 1).state_switches)
                         = Len(timer.state_switches) + 1
                   /\ Running(resume(resume(timer, t), t + 1))
    /\ (AtGetch /\ current_key # None /\ Open = {current_key}) =>
          \A d \in 0..MaxGap :
              OnKey(MainState, current_key, now + d).TIMERS = TIMERS

\* C12 witness: b, running since 1, is the key being processed again a
\* second later; the loop of lines 194-198 has called pause() on the
\* stopped a, whose two marks are as they were, and comes to b.resume().
C12_Witness ==
    /\ pc = "switch" /\ it = 2 /\ char = "b" /\ ~paused /\ Len(TIMERS) = 2
    /\ TIMERS[1] = [name |-> "a", state_switches |-> <<0, 1>>]
    /\ TIMERS[2] = [name |-> "b", state_switches |-> <<1>>]
    /\ now = 2

\* C13 as stated: when the key read has failed and the exception has left
\* the program, the tty is not raw and the cursor is visible.
C13_TerminalRestored ==
    pc = "crashed" => (~term.raw /\ term.cursor)

\* C14 as stated: after every processed key current_key, when it is not
\* None, is the key of a timer in TIMERS; after '*' it is None.
C14_CurrentKeyValid ==
    AfterKey => /\ current_key # None => Has(TIMERS, current_key)
                /\ char = "*" => current_key = None

\* C15 as stated: after every processed key no timer is open while paused
\* is true, and a label key k pressed next, d seconds later, leaves
\* current_key = k and paused false.
C15_PausedFlag ==
    /\ AfterKey => (paused => Open = {})
    /\ AtGetch => \A k \in Labels, d \in 0..MaxGap :
                     LET r == OnKey(MainState, k, now + d)
                     IN r.current_key = k /\ ~r.paused

\* the step of main() that reads q or Q
QuitRead == pc = "read" /\ pc' = "stop_timers"

\* C16 as stated: the step that reads q/Q leaves the timers, current_key
\* and the paused flag as they were.
C16_QuitFrame ==
    [][QuitRead => /\ TIMERS' = TIMERS
                   /\ current_key' = current_key
                   /\ paused' = paused]_vars

\* the entries of the line the Monitor is about to print that are bold
Highlighted == {i \in 1..Len(mon.items) : mon.items[i].bold}

\* C17 as stated: the line a tick is about to write shows one registry
\* state: of several entries at most one is highlighted, and the single
\* entry carries the key of the timer whose time it shows, never None.
C17_NonTorn ==
    mon.pc = "write_cr" =>
        IF single
        THEN /\ mon.items[1].name # None
             /\ mon.items[1].name = mon.timer.name
        ELSE Cardinality(Highlighted) <= 1

\* C18 as stated: no tick of the Monitor ends in an exception.
C18_RendererSurvives == mon.pc \notin {"RuntimeError", "TypeError"}

\* C19: once q/Q is read and both threads keep getting steps, main()
\* returns; the Monitor starts no tick after keep_running is False; in
\* single mode every timer has its report line by then; and the loop is
\* left for the shutdown sequence by q/Q only.
C19_Termination ==
    /\ (pc \in ShutdownPcs) ~> (pc = "returned")
    /\ [][~keep_running =>
             ~(mon.pc = "run" /\ mon'.pc \in {"single_get", "multi_iter"})]_vars
    /\ [][(pc \notin ShutdownPcs /\ pc' \in ShutdownPcs) =>
             (pc = "read" /\ Lower(char') = "q")]_vars
    /\ [](pc = "returned" =>
             /\ Ended(mon.pc)
             /\ single => Len(report) = Len(TIMERS))

\* C19 witness: main() has returned after q in single mode with two timers
\* reported, the Monitor has left its loop, the cursor is back.
C19_Witness ==
    /\ pc = "returned" /\ single /\ Len(report) = 2 /\ Len(TIMERS) = 2
    /\ mon.pc = "exited" /\ term.cursor

\* C20: after every processed key last_active, when it is not None, is the
\* key of a timer in TIMERS, so line 177 never raises KeyError; and with
\* last_active None the key p/P, once or twice, changes nothing but char.
C20_LastActiveValid ==
    /\ AfterKey => (last_active # None => Has(TIMERS, last_active))
    /\ pc # "KeyError"
    /\ (AtGetch /\ last_active = None) =>
          \A k \in {"p", "P"}, d \in 0..MaxGap :
              LET once == OnKey(MainState, k, now + d)
                  twice == OnKey(once, k, now + d + 1)
              IN /\ once = [MainState EXCEPT !.char = k]
                 /\ twice = once

\* C20 witness: p has just been read with nothing remembered, after '*'
\* removed the remembered timer of a paused registry; a is still there.
C20_Witness ==
    /\ AtGetch /\ char = "p" /\ last_active = None /\ paused
    /\ Names(TIMERS) = {"a"}

====
